---------------------------- MODULE Spec2Model ----------------------------
(***************************************************************************)
(* A model of two adapters of the canopy knowledge base:                   *)
(*                                                                         *)
(*   CohereReranker       src/src/canopy/knowledge_base/reranker/cohere.py *)
(*   HybridRecordEncoder  src/src/canopy/knowledge_base/record_encoder/    *)
(*                        hybrid.py                                        *)
(*                                                                         *)
(* Documents are objects on a heap, so that a copy and an alias differ.    *)
(* The scoring service, the dense encoder and the sparse encoder are the   *)
(* environment: their answers are chosen by the actions' \E.               *)
(***************************************************************************)
EXTENDS Integers, Sequences, FiniteSets

\* ------------------------------------------------------------------ bounds
\* Most documents one KBQueryResult holds (and the size of the input pool).
MaxDocs == 2
\* Most KBQueryResults one rerank call is given.
MaxResults == 2

NULL == "None"
\* no exception
NoError == [type |-> "None", message |-> <<>>]

\* ===================================================================
\*                       CohereReranker (cohere.py)
\* ===================================================================

VARIABLES
    n_results,               \* self._n_results, fixed by __init__
    results,                 \* the caller's list handed to rerank (live objects)
    given,                   \* what that list held when rerank was called
    heap,                    \* Document objects; a reference is an index
    pc,                      \* "idle", "loop", "returned", "raised"
    i,                       \* position of the for loop over results (1-based)
    reranked_query_results,  \* the local list rerank builds
    calls,                   \* scoring calls made, in order
    responses,               \* what the service answered to each call
    ret,                     \* the value rerank returned, or NULL
    err,                     \* the exception rerank raised, or NoError
    mutated                  \* the caller changed a returned document

rerankVars == <<n_results, results, given, heap, pc, i, reranked_query_results,
                calls, responses, ret, err, mutated>>

\* HybridRecordEncoder (hybrid.py)
VARIABLES
    encoder,        \* <<>> or <<the constructed object's fields>>
    ctor_args,      \* <<>> or <<the arguments __init__ was called with>>
    ctor_err,       \* the exception __init__ raised, or NoError
    dense_created,  \* default dense encoders instantiated by __init__
    sparse_cache,   \* the cached _sparse_encoder: <<>> or <<instance>>
    loads,          \* times the body of _sparse_encoder has run
    enc_op,         \* the last batch call: "none", "documents", "queries"
    enc_in,         \* its argument
    dense_out,      \* what the dense encoder answered
    sparse_out,     \* what the sparse encoder answered
    enc_ret,        \* what the call returned
    enc_err         \* the exception the call raised, or NoError

encVars == <<encoder, ctor_args, ctor_err, dense_created, sparse_cache, loads,
             enc_op, enc_in, dense_out, sparse_out, enc_ret, enc_err>>

\* threads calling one HybridRecordEncoder
VARIABLES
    locked_build,   \* functools.cached_property takes a lock (CPython < 3.12)
    tpc,            \* each thread's position
    tval,           \* the instance each thread holds (0: none)
    lock,           \* the holder of cached_property's lock, or NULL
    used            \* the instances encode calls have used

lazyVars == <<locked_build, tpc, tval, lock, used>>

vars == <<rerankVars, encVars, lazyVars>>

\* model_name default of __init__
ModelName == "rerank-english-v3.0"

\* Values __init__ may be given as n_results: it takes any int, unchecked.
NResultsValues == -1 .. 2

DocTexts == <<"alpha", "beta", "gamma", "delta">>
QueryTexts == <<"q1", "q2", "q3", "q4">>
ProviderMessages == {"rate limit", "invalid api key"}

\* The Documents the retrieval stage produced: one object per pool slot.
InputDocs ==
    [k \in 1 .. MaxDocs |->
        [id |-> k, text |-> DocTexts[k], source |-> "kb", metadata |-> [page |-> k],
         score |-> k]]

\* The documents list of the result at position k of a batch, m documents long.
\* Odd positions list the pool from its start, even positions from its end, so
\* that result sets share Document objects and an index is not a reference.
DocsFor(k, m) ==
    [j \in 1 .. m |-> IF k % 2 = 1 THEN j ELSE MaxDocs + 1 - j]

\* The batches a caller hands to rerank.
Batches ==
    UNION {
        { [k \in 1 .. n |-> [query |-> QueryTexts[k], documents |-> DocsFor(k, m[k])]]
            : m \in [1 .. n -> 0 .. MaxDocs] }
        : n \in 0 .. MaxResults }

\* Relevance score of the entry at position p of a ranking (descending).
RelevanceAt(p) == 100 - 10 * p

\* The rankings the service may answer for n submitted documents: distinct
\* 0-based indices of them, at most n, by descending relevance.
Rankings(n) ==
    UNION {
        { [p \in 1 .. l |-> [index |-> f[p], relevance_score |-> RelevanceAt(p)]]
            : f \in { g \in [1 .. l -> 0 .. n - 1] :
                        \A a, b \in 1 .. l : a # b => g[a] # g[b] } }
        : l \in 0 .. n }

\* texts = [doc.text for doc in result.documents]
Texts(h, result) ==
    [j \in 1 .. Len(result.documents) |-> h[result.documents[j]].text]

\* Python's s[:n]
TopNAll(s, n) == s
TopN(s, n) ==
    IF n >= 0
    THEN SubSeq(s, 1, IF n < Len(s) THEN n ELSE Len(s))
    ELSE SubSeq(s, 1, IF Len(s) + n > 0 THEN Len(s) + n ELSE 0)

\* doc.model_copy(deep=True, update=dict(score=score)): a new object
ModelCopyKeepScore(h, ref, score) ==
    [heap |-> Append(h, h[ref]), ref |-> Len(h) + 1]
ModelCopyInPlace(h, ref, score) ==
    [heap |-> [h EXCEPT ![ref].score = score], ref |-> ref]
ModelCopy(h, ref, score) ==
    [heap |-> Append(h, [h[ref] EXCEPT !.score = score]), ref |-> Len(h) + 1]

\* the inner for loop: one copy per retained entry, in the ranking's order
RECURSIVE RerankedDocs(_, _, _)
RerankedDocs(h, documents, entries) ==
    IF entries = <<>>
    THEN [heap |-> h, docs |-> <<>>]
    ELSE LET c == ModelCopy(h, documents[Head(entries).index + 1],
                            Head(entries).relevance_score)
             rest == RerankedDocs(c.heap, documents, Tail(entries))
         IN [heap |-> rest.heap, docs |-> <<c.ref>> \o rest.docs]

\* except CohereAPIError as e: raise RuntimeError(... e.message)
OnCohereAPIErrorPartial(out, message) ==
    [pc |-> "returned", ret |-> out, err |-> NoError]
OnCohereAPIErrorRetry(out, message) ==
    [pc |-> "loop", ret |-> NULL, err |-> NoError]
OnCohereAPIError(out, message) ==
    [pc |-> "raised",
     ret |-> NULL,
     err |-> [type |-> "RuntimeError",
              message |-> <<"Failed to rerank documents using Cohere. Underlying Error:",
                            message>>]]

RerankerIdle ==
    /\ results = <<>>
    /\ given = <<>>
    /\ heap = InputDocs
    /\ pc = "idle"
    /\ i = 1
    /\ reranked_query_results = <<>>
    /\ calls = <<>>
    /\ responses = <<>>
    /\ ret = NULL
    /\ err = NoError
    /\ mutated = FALSE

\* CohereReranker(n_results=...) has been constructed
InitReranker ==
    /\ n_results \in NResultsValues
    /\ RerankerIdle

\* rerank(results) is entered
RerankCall ==
    /\ pc = "idle"
    /\ \E b \in Batches :
        /\ results' = b
        /\ given' = b
    /\ pc' = "loop"
    /\ i' = 1
    /\ reranked_query_results' = <<>>
    /\ UNCHANGED <<n_results, heap, calls, responses, ret, err, mutated>>
    /\ UNCHANGED <<encVars, lazyVars>>

\* one pass of the loop whose scoring call answers with a ranking
ScoreOk ==
    /\ pc = "loop"
    /\ i <= Len(results)
    /\ LET result == results[i]
           texts == Texts(heap, result)
       IN \E ranking \in Rankings(Len(texts)) :
            LET r == RerankedDocs(heap, result.documents, TopN(ranking, n_results))
            IN /\ calls' = Append(calls, [query |-> result.query,
                                          documents |-> texts,
                                          model |-> ModelName])
               /\ responses' = Append(responses, [ok |-> TRUE, results |-> ranking])
               /\ heap' = r.heap
               /\ reranked_query_results' =
                    Append(reranked_query_results,
                           [query |-> result.query, documents |-> r.docs])
    /\ i' = i + 1
    /\ UNCHANGED <<n_results, results, given, pc, ret, err, mutated>>
    /\ UNCHANGED <<encVars, lazyVars>>

\* one pass of the loop whose scoring call raises CohereAPIError
ScoreFail ==
    /\ pc = "loop"
    /\ i <= Len(results)
    /\ LET result == results[i]
           texts == Texts(heap, result)
       IN \E message \in ProviderMessages :
            LET o == OnCohereAPIError(reranked_query_results, message)
            IN /\ calls' = Append(calls, [query |-> result.query,
                                          documents |-> texts,
                                          model |-> ModelName])
               /\ responses' = Append(responses, [ok |-> FALSE, message |-> message])
               /\ pc' = o.pc
               /\ ret' = o.ret
               /\ err' = o.err
    /\ UNCHANGED <<n_results, results, given, heap, i, reranked_query_results, mutated>>
    /\ UNCHANGED <<encVars, lazyVars>>

\* return reranked_query_results
RerankReturn ==
    /\ pc = "loop"
    /\ i > Len(results)
    /\ ret' = reranked_query_results
    /\ pc' = "returned"
    /\ UNCHANGED <<n_results, results, given, heap, i, reranked_query_results,
                   calls, responses, err, mutated>>
    /\ UNCHANGED <<encVars, lazyVars>>

\* the caller overwrites the score of a Document it was returned
MutateReturned ==
    /\ pc = "returned"
    /\ ~mutated
    /\ \E k \in 1 .. Len(ret) : \E j \in 1 .. Len(ret[k].documents) :
        heap' = [heap EXCEPT ![ret[k].documents[j]].score = -1]
    /\ mutated' = TRUE
    /\ UNCHANGED <<n_results, results, given, pc, i, reranked_query_results,
                   calls, responses, ret, err>>
    /\ UNCHANGED <<encVars, lazyVars>>

\* ===================================================================
\*                    HybridRecordEncoder (hybrid.py)
\* ===================================================================
\* alpha is counted in tenths (5 is 0.5, 10 is 1); a vector value in
\* hundredths, and the encoders answer multiples of ten hundredths, so that a
\* product with alpha or 1 - alpha is exact.

\* alpha arguments __init__ is called with: -0.1, 0, 0.3, 0.5, 1, 1.5
AlphaValues == {-1, 0, 3, 5, 10, 15}
\* dense_record_encoder arguments: None, a DenseRecordEncoder, something else
DenseArgs == {NULL, "DenseRecordEncoder", "str"}
\* bm_25_encoder_df_path arguments
DfPaths == {NULL, "df.json"}

EncTexts == {DocTexts[k] : k \in 1 .. 3}
Code(text) == CHOOSE k \in 1 .. Len(DocTexts) : DocTexts[k] = text

\* x * a for a in tenths
Times(x, a) == (x * a) \div 10
\* 1 - a for a in tenths
OneMinus(a) == 10 - a

\* __init__: the object it leaves behind, or the exception it raises
HybridInitZeroAllowed(alpha, dense_record_encoder, bm_25_encoder_df_path) ==
    IF ~(0 <= alpha /\ alpha <= 10)
    THEN [err |-> [type |-> "ValueError",
                   message |-> <<"Alpha must be between 0 (excluded) and 1 (included)">>],
          encoder |-> <<>>, dense_created |-> 0]
    ELSE [err |-> NoError,
          encoder |-> <<[alpha |-> alpha,
                         dense_record_encoder |-> "DenseRecordEncoder",
                         bm_25_encoder_df_path |-> bm_25_encoder_df_path]>>,
          dense_created |-> 0]
HybridInit(alpha, dense_record_encoder, bm_25_encoder_df_path) ==
    IF alpha = 0
    THEN [err |-> [type |-> "ValueError",
                   message |-> <<"Sparse only representation is not supported. Alpha must be greater than 0.">>],
          encoder |-> <<>>, dense_created |-> 0]
    ELSE IF ~(0 < alpha /\ alpha <= 10)
    THEN [err |-> [type |-> "ValueError",
                   message |-> <<"Alpha must be between 0 (excluded) and 1 (included)">>],
          encoder |-> <<>>, dense_created |-> 0]
    ELSE IF dense_record_encoder # NULL
    THEN IF dense_record_encoder # "DenseRecordEncoder"
         THEN [err |-> [type |-> "TypeError",
                        message |-> <<"dense_encoder must be an instance of DenseRecordEncoder">>],
               encoder |-> <<>>, dense_created |-> 0]
         ELSE [err |-> NoError,
               encoder |-> <<[alpha |-> alpha,
                              dense_record_encoder |-> dense_record_encoder,
                              bm_25_encoder_df_path |-> bm_25_encoder_df_path]>>,
               dense_created |-> 0]
    ELSE [err |-> NoError,
          encoder |-> <<[alpha |-> alpha,
                         dense_record_encoder |-> "OpenAIRecordEncoder",
                         bm_25_encoder_df_path |-> bm_25_encoder_df_path]>>,
          dense_created |-> 1]

\* the body of _sparse_encoder: the n-th BM25Encoder loaded
LoadSparseEncoder(n, bm_25_encoder_df_path) ==
    [id |-> n,
     profile |-> IF bm_25_encoder_df_path = NULL THEN "default"
                 ELSE bm_25_encoder_df_path]

\* self._sparse_encoder read by one thread alone: loaded on the first read
SparseEncoderGet(cache, n, bm_25_encoder_df_path) ==
    IF cache = <<>>
    THEN [cache |-> <<LoadSparseEncoder(n + 1, bm_25_encoder_df_path)>>,
          loads |-> n + 1]
    ELSE [cache |-> cache, loads |-> n]

\* the dense encoder's vectors (opaque, one per text)
DenseDoc(text) == <<10 * Code(text), -20 * Code(text)>>
DenseQuery(text) == <<10 * Code(text) + 30, 50>>

\* the sparse encoder's vectors (opaque, one per text and loaded profile)
ProfileWeight(inst) == IF inst.profile = "default" THEN 10 ELSE 40
SparseDoc(inst, text) ==
    [indices |-> <<Code(text), Code(text) + 7>>,
     values |-> <<20, 10 * Code(text) + ProfileWeight(inst)>>]
SparseQuery(inst, text) ==
    [indices |-> <<Code(text)>>, values |-> <<ProfileWeight(inst) + 10 * Code(text)>>]

\* self._dense_record_encoder.encode_documents(documents)
DenseEncodeDocuments(documents) ==
    [k \in 1 .. Len(documents) |->
        [id |-> documents[k].id, text |-> documents[k].text,
         values |-> DenseDoc(documents[k].text), sparse_values |-> <<>>]]

\* self._sparse_encoder.encode_documents([d.text for d in documents])
SparseEncodeDocuments(inst, documents) ==
    [k \in 1 .. Len(documents) |-> SparseDoc(inst, documents[k].text)]

\* self._dense_record_encoder.encode_queries(queries)
DenseEncodeQueries(queries) ==
    [k \in 1 .. Len(queries) |->
        [text |-> queries[k].text, top_k |-> queries[k].top_k,
         values |-> DenseQuery(queries[k].text), sparse_values |-> <<>>]]

\* self._sparse_encoder.encode_queries([q.text for q in queries])
SparseEncodeQueries(inst, queries) ==
    [k \in 1 .. Len(queries) |-> SparseQuery(inst, queries[k].text)]

\* zip(a, b) stops at the shorter of the two
ZipLen(a, b) == IF Len(a) < Len(b) THEN Len(a) ELSE Len(b)

\* pinecone_text.hybrid.hybrid_convex_scale
hybrid_convex_scale(query_dense, query_sparse, alpha) ==
    [values |-> [j \in 1 .. Len(query_dense) |-> Times(query_dense[j], alpha)],
     sparse_values |->
        [indices |-> query_sparse.indices,
         values |-> [j \in 1 .. Len(query_sparse.values) |->
                        Times(query_sparse.values[j], OneMinus(alpha))]]]

\* _encode_documents_batch, from the encoders' answers on:
\* for chunk, sv in zip(chunks, sparse_values): chunk.sparse_values = sv
encode_documents_batch_weighted(self, chunks, sparse_values) ==
    [k \in 1 .. Len(chunks) |->
        IF k <= ZipLen(chunks, sparse_values)
        THEN LET v == hybrid_convex_scale(chunks[k].values, sparse_values[k], self.alpha)
             IN [chunks[k] EXCEPT !.values = v.values,
                                  !.sparse_values = <<v.sparse_values>>]
        ELSE chunks[k]]
encode_documents_batch(self, chunks, sparse_values) ==
    [k \in 1 .. Len(chunks) |->
        IF k <= ZipLen(chunks, sparse_values)
        THEN [chunks[k] EXCEPT !.sparse_values = <<sparse_values[k]>>]
        ELSE chunks[k]]

\* _encode_queries_batch, from the encoders' answers on
encode_queries_batch_swapped(self, dense_queries, sparse_values) ==
    [k \in 1 .. ZipLen(dense_queries, sparse_values) |->
        LET v == hybrid_convex_scale(dense_queries[k].values, sparse_values[k],
                                     OneMinus(self.alpha))
        IN [dense_queries[k] EXCEPT !.values = v.values,
                                    !.sparse_values = <<v.sparse_values>>]]
encode_queries_batch(self, dense_queries, sparse_values) ==
    LET scaled_values ==
            [k \in 1 .. ZipLen(dense_queries, sparse_values) |->
                hybrid_convex_scale(dense_queries[k].values, sparse_values[k],
                                    self.alpha)]
    IN [k \in 1 .. ZipLen(dense_queries, scaled_values) |->
            [dense_queries[k] EXCEPT !.values = scaled_values[k].values,
                                     !.sparse_values = <<scaled_values[k].sparse_values>>]]

\* Most chunks or queries in one batch.
MaxBatch == 2

ChunkBatches ==
    UNION { { [k \in 1 .. n |-> [id |-> k, text |-> t[k]]] : t \in [1 .. n -> EncTexts] }
            : n \in 0 .. MaxBatch }
QueryBatches ==
    UNION { { [k \in 1 .. n |-> [text |-> t[k], top_k |-> NULL]] : t \in [1 .. n -> EncTexts] }
            : n \in 0 .. MaxBatch }

EncoderUnconstructed ==
    /\ encoder = <<>>
    /\ ctor_args = <<>>
    /\ ctor_err = NoError
    /\ dense_created = 0

EncoderIdle ==
    /\ sparse_cache = <<>>
    /\ loads = 0
    /\ enc_op = "none"
    /\ enc_in = <<>>
    /\ dense_out = <<>>
    /\ sparse_out = <<>>
    /\ enc_ret = <<>>
    /\ enc_err = NoError

\* HybridRecordEncoder(dense_record_encoder, alpha, bm_25_encoder_df_path)
Construct ==
    /\ ctor_args = <<>>
    /\ \E alpha \in AlphaValues, d \in DenseArgs, path \in DfPaths :
        LET o == HybridInit(alpha, d, path)
        IN /\ ctor_args' = <<[alpha |-> alpha, dense_record_encoder |-> d,
                              bm_25_encoder_df_path |-> path]>>
           /\ ctor_err' = o.err
           /\ encoder' = o.encoder
           /\ dense_created' = o.dense_created
    /\ UNCHANGED <<sparse_cache, loads, enc_op, enc_in, dense_out, sparse_out,
                   enc_ret, enc_err>>
    /\ UNCHANGED <<rerankVars, lazyVars>>

\* _encode_documents_batch(documents), the encoders answering one per input
EncodeDocuments ==
    /\ encoder # <<>>
    /\ \E documents \in ChunkBatches :
        LET self == encoder[1]
            chunks == DenseEncodeDocuments(documents)
            g == SparseEncoderGet(sparse_cache, loads, self.bm_25_encoder_df_path)
            sparse_values == SparseEncodeDocuments(g.cache[1], documents)
        IN /\ enc_op' = "documents"
           /\ enc_in' = documents
           /\ dense_out' = chunks
           /\ sparse_out' = sparse_values
           /\ sparse_cache' = g.cache
           /\ loads' = g.loads
           /\ enc_ret' = encode_documents_batch(self, chunks, sparse_values)
           /\ enc_err' = NoError
    /\ UNCHANGED <<encoder, ctor_args, ctor_err, dense_created>>
    /\ UNCHANGED <<rerankVars, lazyVars>>

\* _encode_documents_batch(documents), the two encoders answering lists of
\* different lengths
EncodeDocumentsMismatched ==
    /\ encoder # <<>>
    /\ \E documents \in ChunkBatches :
       \E dl, sl \in 0 .. Len(documents) :
        LET self == encoder[1]
            chunks == SubSeq(DenseEncodeDocuments(documents), 1, dl)
            g == SparseEncoderGet(sparse_cache, loads, self.bm_25_encoder_df_path)
            sparse_values == SubSeq(SparseEncodeDocuments(g.cache[1], documents), 1, sl)
        IN /\ dl # sl
           /\ enc_op' = "documents"
           /\ enc_in' = documents
           /\ dense_out' = chunks
           /\ sparse_out' = sparse_values
           /\ sparse_cache' = g.cache
           /\ loads' = g.loads
           /\ enc_ret' = encode_documents_batch(self, chunks, sparse_values)
           /\ enc_err' = NoError
    /\ UNCHANGED <<encoder, ctor_args, ctor_err, dense_created>>
    /\ UNCHANGED <<rerankVars, lazyVars>>

\* _encode_queries_batch(queries), the encoders answering one per input
EncodeQueries ==
    /\ encoder # <<>>
    /\ \E queries \in QueryBatches :
        LET self == encoder[1]
            dense_queries == DenseEncodeQueries(queries)
            g == SparseEncoderGet(sparse_cache, loads, self.bm_25_encoder_df_path)
            sparse_values == SparseEncodeQueries(g.cache[1], queries)
        IN /\ enc_op' = "queries"
           /\ enc_in' = queries
           /\ dense_out' = dense_queries
           /\ sparse_out' = sparse_values
           /\ sparse_cache' = g.cache
           /\ loads' = g.loads
           /\ enc_ret' = encode_queries_batch(self, dense_queries, sparse_values)
           /\ enc_err' = NoError
    /\ UNCHANGED <<encoder, ctor_args, ctor_err, dense_created>>
    /\ UNCHANGED <<rerankVars, lazyVars>>

\* ===================================================================
\*        _sparse_encoder read by several threads (hybrid.py 77-85)
\* ===================================================================
\* functools.cached_property reads the instance's __dict__, runs the body on
\* a miss and stores the result.  CPython 3.8 to 3.11 does the second read,
\* the body and the store under a lock; CPython 3.12 on takes no lock.  The
\* interpreter is not fixed by the source, so both are possible.

Threads == {"t1", "t2"}

LazyIdle ==
    /\ tpc = [t \in Threads |-> "idle"]
    /\ tval = [t \in Threads |-> <<>>]
    /\ lock = NULL
    /\ used = {}

\* a thread enters _encode_documents_batch or _encode_queries_batch
ThreadCall(t) ==
    /\ tpc[t] = "idle"
    /\ tpc' = [tpc EXCEPT ![t] = "lookup"]
    /\ tval' = [tval EXCEPT ![t] = <<>>]
    /\ UNCHANGED <<locked_build, lock, used, rerankVars, encVars>>

\* val = cache.get(self.attrname, _NOT_FOUND)
ThreadLookup(t) ==
    /\ tpc[t] = "lookup"
    /\ IF sparse_cache # <<>>
       THEN /\ tval' = [tval EXCEPT ![t] = sparse_cache]
            /\ tpc' = [tpc EXCEPT ![t] = "use"]
       ELSE /\ tval' = tval
            /\ tpc' = [tpc EXCEPT ![t] = IF locked_build THEN "acquire" ELSE "load"]
    /\ UNCHANGED <<locked_build, lock, used, rerankVars, encVars>>

\* with self.lock: val = cache.get(self.attrname, _NOT_FOUND)
ThreadAcquire(t) ==
    /\ tpc[t] = "acquire"
    /\ lock = NULL
    /\ lock' = t
    /\ IF sparse_cache # <<>>
       THEN /\ tval' = [tval EXCEPT ![t] = sparse_cache]
            /\ tpc' = [tpc EXCEPT ![t] = "release"]
       ELSE /\ tval' = tval
            /\ tpc' = [tpc EXCEPT ![t] = "load"]
    /\ UNCHANGED <<locked_build, used, rerankVars, encVars>>

\* val = self.func(instance): the body of _sparse_encoder
ThreadLoad(t) ==
    /\ tpc[t] = "load"
    /\ loads' = loads + 1
    /\ tval' = [tval EXCEPT ![t] =
                    <<LoadSparseEncoder(loads + 1, encoder[1].bm_25_encoder_df_path)>>]
    /\ tpc' = [tpc EXCEPT ![t] = "store"]
    /\ UNCHANGED <<encoder, ctor_args, ctor_err, dense_created, sparse_cache,
                   enc_op, enc_in, dense_out, sparse_out, enc_ret, enc_err>>
    /\ UNCHANGED <<locked_build, lock, used, rerankVars>>

\* cache[self.attrname] = val
ThreadStore(t) ==
    /\ tpc[t] = "store"
    /\ sparse_cache' = tval[t]
    /\ tpc' = [tpc EXCEPT ![t] = IF locked_build THEN "release" ELSE "use"]
    /\ UNCHANGED <<encoder, ctor_args, ctor_err, dense_created, loads,
                   enc_op, enc_in, dense_out, sparse_out, enc_ret, enc_err>>
    /\ UNCHANGED <<locked_build, tval, lock, used, rerankVars>>

\* the with block is left
ThreadRelease(t) ==
    /\ tpc[t] = "release"
    /\ lock = t
    /\ lock' = NULL
    /\ tpc' = [tpc EXCEPT ![t] = "use"]
    /\ UNCHANGED <<locked_build, tval, used, rerankVars, encVars>>

\* .encode_documents(...) or .encode_queries(...) on the instance read
ThreadEncode(t) ==
    /\ tpc[t] = "use"
    /\ used' = used \cup {tval[t][1]}
    /\ tpc' = [tpc EXCEPT ![t] = "idle"]
    /\ UNCHANGED <<locked_build, tval, lock, rerankVars, encVars>>

\* ===================================================================
\*                          Specifications
\* ===================================================================

\* CohereReranker: one rerank call and what its caller does with the result
Init ==
    /\ InitReranker
    /\ EncoderUnconstructed
    /\ EncoderIdle
    /\ locked_build = FALSE
    /\ LazyIdle

Next ==
    \/ RerankCall
    \/ ScoreOk
    \/ ScoreFail
    \/ RerankReturn
    \/ MutateReturned

Spec == Init /\ [][Next]_vars

\* HybridRecordEncoder with encoders that answer one output per input
InitEncoder ==
    /\ n_results = 5
    /\ RerankerIdle
    /\ EncoderUnconstructed
    /\ EncoderIdle
    /\ locked_build = FALSE
    /\ LazyIdle

NextEncoder ==
    \/ Construct
    \/ EncodeDocuments
    \/ EncodeQueries

SpecEncoder == InitEncoder /\ [][NextEncoder]_vars

\* HybridRecordEncoder with encoders that may answer lists of unequal length
NextEncoderMismatch ==
    \/ Construct
    \/ EncodeDocuments
    \/ EncodeDocumentsMismatched
    \/ EncodeQueries

SpecEncoderMismatch == InitEncoder /\ [][NextEncoderMismatch]_vars

\* One constructed HybridRecordEncoder called from several threads
InitLazy ==
    /\ n_results = 5
    /\ RerankerIdle
    /\ \E path \in DfPaths :
        LET o == HybridInit(5, NULL, path)
        IN /\ ctor_args = <<[alpha |-> 5, dense_record_encoder |-> NULL,
                             bm_25_encoder_df_path |-> path]>>
           /\ ctor_err = o.err
           /\ encoder = o.encoder
           /\ dense_created = o.dense_created
    /\ EncoderIdle
    /\ locked_build \in BOOLEAN
    /\ LazyIdle

NextLazy ==
    \/ \E t \in Threads : ThreadCall(t)
    \/ \E t \in Threads : ThreadLookup(t)
    \/ \E t \in Threads : ThreadAcquire(t)
    \/ \E t \in Threads : ThreadLoad(t)
    \/ \E t \in Threads : ThreadStore(t)
    \/ \E t \in Threads : ThreadRelease(t)
    \/ \E t \in Threads : ThreadEncode(t)

SpecLazy == InitLazy /\ [][NextLazy]_vars

\* ===================================================================
\*                              Claims
\* ===================================================================

\* the ranking the service answered to the k-th scoring call
RankingOf(k) == responses[k].results

\* C1 as stated: for every configured n_results, each returned KBQueryResult
\* holds at most n_results documents, and exactly n_results when the ranking
\* has at least n_results entries.
C1_Original ==
    pc = "returned" =>
        \A k \in 1 .. Len(ret) :
            /\ Len(ret[k].documents) <= n_results
            /\ Len(RankingOf(k)) >= n_results => Len(ret[k].documents) = n_results

\* C1 amended: for every configured n_results >= 0, each returned
\* KBQueryResult holds at most n_results documents, and exactly n_results when
\* the ranking has at least n_results entries.
C1_AtMostNResults ==
    (pc = "returned" /\ n_results >= 0) =>
        \A k \in 1 .. Len(ret) :
            /\ Len(ret[k].documents) <= n_results
            /\ Len(RankingOf(k)) >= n_results => Len(ret[k].documents) = n_results

\* C1 witness: a ranking longer than n_results was cut down to n_results.
C1_Witness ==
    /\ pc = "returned"
    /\ n_results = 1
    /\ \E k \in 1 .. Len(ret) :
        /\ Len(RankingOf(k)) > 1
        /\ Len(ret[k].documents) = 1

\* C2: on success there is one output result per input result, in input order
\* and with the same query; its j-th document is the input candidate at the
\* index of the ranking's j-th entry, with that entry's relevance score as its
\* score and every other field as it was.
C2_RankedCopies ==
    (pc = "returned" /\ ~mutated) =>
        /\ Len(ret) = Len(given)
        /\ \A k \in 1 .. Len(ret) :
            /\ ret[k].query = given[k].query
            /\ Len(ret[k].documents) <= Len(RankingOf(k))
            /\ \A j \in 1 .. Len(ret[k].documents) :
                LET entry == RankingOf(k)[j]
                    original == InputDocs[given[k].documents[entry.index + 1]]
                    doc == heap[ret[k].documents[j]]
                IN /\ doc.score = entry.relevance_score
                   /\ DOMAIN doc = DOMAIN original
                   /\ \A f \in DOMAIN original \ {"score"} : doc[f] = original[f]

\* C2 witness: two results returned, one of them with its two documents in
\* the reverse of their input order.
C2_Witness ==
    /\ pc = "returned"
    /\ ~mutated
    /\ Len(ret) = 2
    /\ \E k \in 1 .. Len(ret) :
        /\ Len(ret[k].documents) = 2
        /\ RankingOf(k)[1].index = 1
        /\ RankingOf(k)[2].index = 0

\* every (result, position) of the returned value
ReturnedSlots ==
    IF ret = NULL THEN {}
    ELSE { <<k, j>> \in (1 .. Len(ret)) \X (1 .. MaxDocs) : j <= Len(ret[k].documents) }

\* C3: rerank leaves its input as it was (the list it was given, every input
\* Document and its score), whether it returns or raises, and every returned
\* Document is an object of its own: none is an input Document and no two are
\* the same object, so a later change to one changes no input Document.
C3_InputUntouched ==
    /\ results = given
    /\ \A ref \in 1 .. MaxDocs : heap[ref] = InputDocs[ref]
    /\ \A s \in ReturnedSlots : ret[s[1]].documents[s[2]] > MaxDocs
    /\ \A s, t \in ReturnedSlots :
        s # t => ret[s[1]].documents[s[2]] # ret[t[1]].documents[t[2]]

\* C3 witness: one input Document was selected for two result sets, and the
\* caller has since changed the score of a returned Document.
C3_Witness ==
    /\ pc = "returned"
    /\ mutated
    /\ \E s, t \in ReturnedSlots :
        /\ s[1] # t[1]
        /\ heap[ret[s[1]].documents[s[2]]].id = heap[ret[t[1]].documents[t[2]]].id

\* C4: once a scoring call has failed, the rerank call has raised an error
\* that carries the provider's message, and it has returned nothing, whatever
\* was reranked before the failure.
C4_FailsWhole ==
    \A k \in 1 .. Len(responses) :
        ~responses[k].ok =>
            /\ pc = "raised"
            /\ ret = NULL
            /\ err.type = "RuntimeError"
            /\ err.message[2] = responses[k].message

\* C4 witness: the second scoring call failed after the first result had been
\* reranked.
C4_Witness ==
    /\ pc = "raised"
    /\ Len(reranked_query_results) = 1
    /\ Len(reranked_query_results[1].documents) > 0
    /\ ~responses[2].ok

\* C10: the scoring calls of one rerank invocation are, in order, one for each
\* input result from the first on, each with that result's query and its
\* document texts in their input order; a failed call is the last one.
C10_OneCallPerResult ==
    /\ Len(calls) = Len(responses)
    /\ Len(calls) <= Len(given)
    /\ \A k \in 1 .. Len(calls) :
        /\ calls[k].query = given[k].query
        /\ calls[k].documents =
            [j \in 1 .. Len(given[k].documents) |-> InputDocs[given[k].documents[j]].text]
        /\ ~responses[k].ok => k = Len(calls)

\* C10 witness: a first call succeeded, a second failed, for a batch of two.
C10_Witness ==
    /\ Len(calls) = 2
    /\ responses[1].ok
    /\ ~responses[2].ok
    /\ Len(calls[2].documents) = 2

\* C5 as stated: when the dense and the sparse encoder answer lists of
\* different lengths for one batch, encode_documents_batch raises an error and
\* returns nothing.
C5_Original ==
    (enc_op = "documents" /\ Len(dense_out) # Len(sparse_out)) =>
        /\ enc_err # NoError
        /\ enc_ret = <<>>

\* C6: encode_documents_batch returns one encoded chunk per input chunk, in
\* input order, the k-th with the dense vector and the sparse vector the
\* encoders produced for the k-th input, both set and neither weighted.
C6_DocumentsEncoded ==
    enc_op = "documents" =>
        /\ Len(enc_ret) = Len(enc_in)
        /\ \A k \in 1 .. Len(enc_ret) :
            /\ enc_ret[k].id = enc_in[k].id
            /\ enc_ret[k].text = enc_in[k].text
            /\ enc_ret[k].values = DenseDoc(enc_in[k].text)
            /\ enc_ret[k].sparse_values = <<SparseDoc(sparse_cache[1], enc_in[k].text)>>

\* C6 witness: two different chunks encoded by an encoder whose alpha is 0.3.
C6_Witness ==
    /\ enc_op = "documents"
    /\ encoder[1].alpha = 3
    /\ Len(enc_ret) = 2
    /\ enc_in[1].text # enc_in[2].text

\* C7: encode_queries_batch returns one KBQuery per input query, in input
\* order, whose dense values are the raw dense encoding times alpha and whose
\* sparse values are the raw sparse encoding times 1 - alpha, alpha being the
\* one given at construction; for alpha = 1 the dense values are the raw ones
\* and every sparse value is zero.
C7_QueriesScaled ==
    enc_op = "queries" =>
        LET a == ctor_args[1].alpha
        IN /\ Len(enc_ret) = Len(enc_in)
           /\ \A k \in 1 .. Len(enc_ret) :
                LET q == enc_ret[k]
                    raw_dense == DenseQuery(enc_in[k].text)
                    raw_sparse == SparseQuery(sparse_cache[1], enc_in[k].text)
                IN /\ q.text = enc_in[k].text
                   /\ q.top_k = enc_in[k].top_k
                   /\ Len(q.values) = Len(raw_dense)
                   /\ \A j \in 1 .. Len(raw_dense) : 10 * q.values[j] = a * raw_dense[j]
                   /\ Len(q.sparse_values) = 1
                   /\ q.sparse_values[1].indices = raw_sparse.indices
                   /\ Len(q.sparse_values[1].values) = Len(raw_sparse.values)
                   /\ \A j \in 1 .. Len(raw_sparse.values) :
                        10 * q.sparse_values[1].values[j] = (10 - a) * raw_sparse.values[j]
                   /\ a = 10 =>
                        /\ q.values = raw_dense
                        /\ \A j \in 1 .. Len(raw_sparse.values) :
                            q.sparse_values[1].values[j] = 0

\* C7 witness: two different queries encoded by an encoder whose alpha is 0.3.
C7_Witness ==
    /\ enc_op = "queries"
    /\ encoder[1].alpha = 3
    /\ Len(enc_ret) = 2
    /\ enc_in[1].text # enc_in[2].text

\* alpha lies in (0, 1]
AlphaInRange(a) == 0 < a /\ a <= 10

\* C8: constructing with alpha = 0 or alpha outside (0, 1] raises the alpha
\* error before any dense encoder is created and leaves no encoder object;
\* with alpha in (0, 1] the alpha check passes and (given a usable dense
\* encoder) an encoder exists whose alpha is the one given, and stays so
\* through every later call.
C8_AlphaValidated ==
    ctor_args # <<>> =>
        LET a == ctor_args[1].alpha
        IN /\ ~AlphaInRange(a) =>
                /\ ctor_err.type = "ValueError"
                /\ encoder = <<>>
                /\ dense_created = 0
           /\ AlphaInRange(a) =>
                /\ ctor_err.type # "ValueError"
                /\ ctor_args[1].dense_record_encoder # "str" =>
                    /\ ctor_err = NoError
                    /\ encoder # <<>>
           /\ encoder # <<>> =>
                /\ encoder[1].alpha = a
                /\ AlphaInRange(encoder[1].alpha)

\* C8 witness: the constructor was called with alpha = 0 and raised.
C8_Witness ==
    /\ ctor_args # <<>>
    /\ ctor_args[1].alpha = 0
    /\ ctor_err.type = "ValueError"

\* C9 as stated: under any interleaving of calls the body of _sparse_encoder
\* runs at most once and every call uses the same instance.
C9_Original ==
    /\ loads <= 1
    /\ Cardinality(used) <= 1

=============================================================================
